---- MODULE Spec2Model ----
(***************************************************************************)
(* Matchmaking and session-continuity engine of the ChatItNow backend.     *)
(*                                                                         *)
(* The model follows the variant of the server that carries partner links  *)
(* and message buffers (src/unnamed/part_002, lines 372-740).  Apart from  *)
(* these two fields, the flush on reconnection and the buffering in        *)
(* send_message, its code is that of src/server.js (lines 1-342).          *)
(*                                                                         *)
(* A client may hold several connections with one token (two tabs); every  *)
(* live connection can send every event, also one the session has left.    *)
(*                                                                         *)
(* JavaScript runs every handler and every timer callback to completion,   *)
(* so each of them is one atomic action.                                   *)
(*                                                                         *)
(* Time.  The three delays of the program order its timers; the model      *)
(* keeps that order and not the clock.  `timers` lists the pending         *)
(* callbacks in the order in which their chains were started (a phase-2    *)
(* timer takes the place of the phase-1 timer that scheduled it), and:     *)
(*   - timers of equal delay run first-in first-out;                       *)
(*   - a phase-1 timer runs after every phase-2 timer that was pending     *)
(*     when it was set (PHASE_2_DELAY < PHASE_1_DELAY);                    *)
(*   - a grace timer runs after every phase timer whose chain is older     *)
(*     (PHASE_1_DELAY + PHASE_2_DELAY < RECONNECT_GRACE_PERIOD).           *)
(* Every other order of two timers occurs for some timing of the events.   *)
(*                                                                         *)
(* Of socket.lastActive the model keeps whether it is older than           *)
(* INACTIVITY_LIMIT ("old") or not ("fresh"); a connection grows old only  *)
(* in SpecIdle, the specification that runs the idle checker.              *)
(*                                                                         *)
(* Fields of the program that are written and never read are left out:     *)
(* socket.roomID, entry.socket, entry.joinedAt.                            *)
(***************************************************************************)
EXTENDS Integers, Sequences, FiniteSets, TLC

\* ------------------------------------------------------------------ bounds
\* Specification Spec: the whole server, every handler.
\* Tokens that connect in a run.
NumTokens == 2
\* Connections accepted in a run (socket ids are 1, 2, ..., never reused).
MaxSockets == 3
\* find_partner requests in a run.
MaxSearches == 2
\* send_message, typing and send_reaction requests in a run; the k-th of them
\* carries the k-th text of Texts.
MaxMessages == 2

\* Specification SpecPool: the waiting pool and the matcher, no room events.
PoolTokens == 3
PoolSockets == 3
PoolSearches == 3

\* Specification SpecTabs: the whole server with one more connection, so that a
\* token can have two connections open and still reconnect.
TabsTokens == 2
TabsSockets == 4
TabsSearches == 2
TabsMessages == 1

\* Two sessions on one connection each, searching often enough to meet twice
RepeatTokens == 2
RepeatSockets == 2
RepeatSearches == 4

\* Specification SpecIdle: the whole server with its idle checker.
IdleTokens == 2
IdleSockets == 3
IdleSearches == 2
IdleMessages == 1

\* --------------------------------------------------------- program constants
\* seconds
PHASE_1_DELAY == 3
PHASE_2_DELAY == 2
RECONNECT_GRACE_PERIOD == 86400

\* ------------------------------------------------------------------ inputs
\* handshake.auth.sessionID; NoToken is the falsy (absent or empty) value.
NoToken == ""
\* The tokens, in the order in which they first connect.
TokenOrder == <<"A", "B", "C", "D", "E">>

\* userData a client submits with find_partner.
ProfilesOf(tok) ==
  IF tok = "A" THEN { [username |-> "ann", field |-> "math"],
                      [username |-> "ann", field |-> "art"] }
  ELSE IF tok = "B" THEN { [username |-> "", field |-> "math"] }
  ELSE IF tok = "C" THEN { [username |-> "cy", field |-> "math"],
                           [username |-> "cy", field |-> "Others"] }
  ELSE { [username |-> "dee", field |-> ""] }

\* A nullable value is a sequence of length at most one.
Null == <<>>
Some(x) == <<x>>
IsNull(o) == o = <<>>
Val(o) == o[1]

\* Room ids are `${socket1.id}#${socket2.id}`: the pair of socket ids.
NoRoom == <<>>

VARIABLES
  sockets,       \* io.sockets.sockets: live socket id -> socket object
  sessionMap,    \* sessionMap: token -> session
  waitingQueue,  \* waitingQueue: the entries, in insertion order
  timers,        \* pending setTimeout callbacks, in order of their chain's start
  used,          \* what the run has used so far: tokens, sockets, searches, messages
  limit,         \* what a run may use (fixed by Init)
  searching,     \* history: sessions whose find_partner has not ended yet
  roomsMade,     \* history: the room ids executeMatch has given out
  sentBy,        \* history: <<text, session>> for every message stored in a messageQueue
  out,           \* what the last step emitted, in order
  last           \* the last step: which handler ran, for which socket / token

vars == <<sockets, sessionMap, waitingQueue, timers, used, limit, searching, roomsMade, sentBy,
         out, last>>

\* ------------------------------------------------------------------ helpers
Live == DOMAIN sockets
Sessions == DOMAIN sessionMap

Remove(f, k) == [x \in (DOMAIN f) \ {k} |-> f[x]]
Put(f, k, v) == [x \in (DOMAIN f) \cup {k} |-> IF x = k THEN v ELSE f[x]]

\* An emitted event, addressed to one socket.
Ev(to, ev) ==
  [to |-> to, ev |-> ev, name |-> "", field |-> "", roomID |-> NoRoom, text |-> ""]

\* The sockets of a room, in id order, as a sequence.
RECURSIVE SetToSeq(_)
SetToSeq(S) ==
  IF S = {} THEN <<>>
  ELSE LET m == CHOOSE x \in S : \A y \in S : x <= y
       IN <<m>> \o SetToSeq(S \ {m})

InRoom(socks, room) == {s \in DOMAIN socks : room \in socks[s].rooms}

\* io.to(room).emit(ev)
EmitRoom(socks, room, ev) ==
  LET members == SetToSeq(InRoom(socks, room))
  IN [i \in 1..Len(members) |-> Ev(members[i], ev)]

\* A broadcast that does not leave out the sender.
EmitRoomExcept_All(socks, room, sender, ev) ==
  LET members == SetToSeq(InRoom(socks, room))
  IN [i \in 1..Len(members) |-> Ev(members[i], ev)]

\* socket.to(room).emit(ev): the room without the sender
EmitRoomExcept(socks, room, sender, ev) ==
  LET members == SetToSeq(InRoom(socks, room) \ {sender})
  IN [i \in 1..Len(members) |-> Ev(members[i], ev)]

\* io.in(room).socketsLeave(room)
socketsLeave(socks, room) ==
  [s \in DOMAIN socks |-> [socks[s] EXCEPT !.rooms = @ \ {room}]]

\* socket.onAny: every inbound event refreshes socket.lastActive
Touch(socks, s) == [socks EXCEPT ![s].lastActive = "fresh"]

\* A removeFromQueue that moves the oldest entry to the end when the session
\* has no entry to remove.
removeFromQueue_OrRotate(q, sessionID) ==
  IF \E i \in DOMAIN q : q[i].sessionID = sessionID
  THEN SelectSeq(q, LAMBDA e : e.sessionID # sessionID)
  ELSE IF q = <<>> THEN q ELSE Append(Tail(q), Head(q))

\* A removeFromQueue that leaves the queue as it is.
removeFromQueue_Nothing(q, sessionID) == q

removeFromQueue(q, sessionID) ==
  LET Keep(u) == u.sessionID # sessionID IN SelectSeq(q, Keep)

InQueue(q, sessionID) == \E i \in 1..Len(q) : q[i].sessionID = sessionID

\* A lookup that takes the oldest entry of the pool, whose ever it is.
FindEntry_Oldest(q, sessionID) == IF q = <<>> THEN 0 ELSE 1

\* waitingQueue.find(u => u.sessionID === sessionID): index of the first, or 0
FindEntry(q, sessionID) ==
  IF InQueue(q, sessionID)
  THEN CHOOSE i \in 1..Len(q) :
         /\ q[i].sessionID = sessionID
         /\ \A j \in 1..(i - 1) : q[j].sessionID # sessionID
  ELSE 0

\* The live socket of a session, or 0 (null).
getSocketFromSession(sess, socks, sessionID) ==
  IF sessionID \notin DOMAIN sess THEN 0
  ELSE IF sess[sessionID].socketId \in DOMAIN socks THEN sess[sessionID].socketId
  ELSE 0

\* A clearTimeout that cancels nothing.
clearTimeout_Nothing(tm, sessionID) == tm

\* clearTimeout(session.timer): drops the pending grace timer the session holds
clearTimeout(tm, sessionID) ==
  LET Keep(t) == ~(t.kind = "grace" /\ t.sessionID = sessionID /\ t.held)
  IN SelectSeq(tm, Keep)

\* A session that goes away, or sets a new timer, no longer holds its old one.
Unhold(tm, sessionID) ==
  [i \in 1..Len(tm) |->
     IF tm[i].kind = "grace" /\ tm[i].sessionID = sessionID
     THEN [tm[i] EXCEPT !.held = FALSE] ELSE tm[i]]

NewSession(socketId) ==
  [socketId |-> socketId, roomID |-> NoRoom, userData |-> Null, timer |-> FALSE,
   partnerSessionID |-> NoToken, messageQueue |-> <<>>]

NewSocket(sessionID, userData) ==
  [sessionID |-> sessionID, userData |-> userData, rooms |-> {}, lastActive |-> "fresh"]

\* A pending callback.  kind: "phase1", "phase2" or "grace"; sessionID and field
\* are what its closure holds (socket.sessionID, userData.field); behind: the
\* phase-2 timers that were pending when this phase-1 timer was set; held: the
\* session's timer field still refers to this grace timer.
PhaseTimer(phase, sessionID, field, behind) ==
  [kind |-> phase, sessionID |-> sessionID, field |-> field,
   behind |-> behind, held |-> FALSE]

GraceTimer(sessionID) ==
  [kind |-> "grace", sessionID |-> sessionID, field |-> "",
   behind |-> 0, held |-> TRUE]

Step(op, sock, token) == [op |-> op, sock |-> sock, token |-> token]

Tokens == {TokenOrder[i] : i \in 1..limit.tokens}

\* ------------------------------------------------------------------ initial state
NoneUsed == [tokens |-> 0, sockets |-> 0, searches |-> 0, messages |-> 0]

InitState ==
  /\ sockets = <<>>
  /\ sessionMap = <<>>
  /\ waitingQueue = <<>>
  /\ timers = <<>>
  /\ used = NoneUsed
  /\ searching = {}
  /\ roomsMade = {}
  /\ sentBy = {}
  /\ out = <<>>
  /\ last = Step("init", 0, NoToken)

Init ==
  /\ InitState
  /\ limit = [tokens |-> NumTokens, sockets |-> MaxSockets,
              searches |-> MaxSearches, messages |-> MaxMessages]

\* The id of the next connection.
nextId == used.sockets + 1

\* ------------------------------------------------------------------ connection
\* A connection handler without the token check: the connection is kept and
\* its handlers are registered.
Reject_Admit ==
  /\ used.sockets < limit.sockets
  /\ sockets' = Put(sockets, nextId, NewSocket(NoToken, Null))
  /\ used' = [used EXCEPT !.sockets = @ + 1]
  /\ out' = <<>>
  /\ last' = Step("reject", nextId, NoToken)
  /\ UNCHANGED <<sessionMap, waitingQueue, timers, limit, searching, roomsMade, sentBy>>

\* io.on('connection'): a connection without a token is closed at once and
\* leaves nothing behind (its id is stored nowhere, so it is not counted).
Reject ==
  /\ used.sockets < limit.sockets
  /\ out' = <<>>
  /\ last' = Step("reject", nextId, NoToken)
  /\ UNCHANGED <<sockets, sessionMap, waitingQueue, timers, used, limit, searching, roomsMade, sentBy>>

\* io.on('connection') with a token that has no session: a new session.
\* Tokens make their first connection in the order of TokenOrder.
ConnectNew(tok) ==
  /\ used.sockets < limit.sockets
  /\ tok \notin Sessions
  /\ \E i \in 1..limit.tokens :
       /\ TokenOrder[i] = tok
       /\ i <= used.tokens + 1
       /\ used' = [used EXCEPT !.sockets = @ + 1,
                               !.tokens = IF i > @ THEN i ELSE @]
  /\ sockets' = Put(sockets, nextId, NewSocket(tok, Null))
  /\ sessionMap' = Put(sessionMap, tok, NewSession(nextId))
  /\ out' = <<>>
  /\ last' = Step("connect", nextId, tok)
  /\ searching' = searching \ {tok}
  /\ UNCHANGED <<roomsMade, sentBy>>
  /\ UNCHANGED <<waitingQueue, timers, limit>>

\* session.messageQueue.forEach(msg => socket.emit('receive_message', msg))
Flush(id, queue) ==
  [i \in 1..Len(queue) |-> [Ev(id, "receive_message") EXCEPT !.text = queue[i]]]

\* io.on('connection') with a token that has a session: the reconnection handler
Reconnect(tok) ==
  /\ used.sockets < limit.sockets
  /\ tok \in Sessions
  /\ LET session == sessionMap[tok]
         id == nextId
         paired == session.roomID # NoRoom
         socks1 == Put(sockets, id,
                       [NewSocket(tok, session.userData) EXCEPT
                          !.rooms = IF paired THEN {session.roomID} ELSE {}])
     IN /\ sockets' = socks1
        /\ sessionMap' = [sessionMap EXCEPT ![tok] =
               [session EXCEPT !.socketId = id,
                               !.timer = FALSE,
                               !.messageQueue = IF paired THEN <<>> ELSE @]]
        /\ timers' = IF session.timer THEN clearTimeout(timers, tok) ELSE timers
        /\ out' = IF paired
                  THEN EmitRoomExcept(socks1, session.roomID, id, "partner_connected")
                       \o <<[Ev(id, "session_restored") EXCEPT !.text = "connected"]>>
                       \o Flush(id, session.messageQueue)
                  ELSE <<>>
  /\ used' = [used EXCEPT !.sockets = @ + 1]
  /\ last' = Step("reconnect", nextId, tok)
  /\ UNCHANGED <<waitingQueue, limit, searching, roomsMade, sentBy>>

\* ------------------------------------------------------------------ disconnect
\* A disconnect handler that takes every disconnect for a stale one.
Superseded_Always(session, s) == TRUE

\* A disconnect handler that has lost the guard against stale disconnects.
Superseded_Never(session, s) == FALSE

\* if (session.socketId !== socket.id) return;
Superseded(session, s) == session.socketId # s

\* socket.on('disconnect'): socket.io has taken the socket out of its rooms and
\* out of io.sockets.sockets before the handler runs.
Disconnect(s) ==
  /\ s \in Live
  /\ LET tok == sockets[s].sessionID
         socks1 == Remove(sockets, s)
     IN /\ sockets' = socks1
        /\ last' = Step("disconnect", s, tok)
        /\ IF tok \notin Sessions
           THEN /\ out' = <<>>
                /\ UNCHANGED <<sessionMap, waitingQueue, timers, searching, roomsMade, sentBy>>
           ELSE IF Superseded(sessionMap[tok], s)
           THEN \* stale: the session already lives on another connection
                /\ out' = <<>>
                /\ UNCHANGED <<sessionMap, waitingQueue, timers, searching, roomsMade, sentBy>>
           ELSE /\ waitingQueue' = removeFromQueue(waitingQueue, tok)
                /\ searching' = searching \ {tok}
                /\ UNCHANGED <<roomsMade, sentBy>>
                /\ IF sessionMap[tok].roomID # NoRoom
                   THEN /\ out' = EmitRoomExcept(socks1, sessionMap[tok].roomID, s,
                                                 "partner_reconnecting_server")
                        /\ timers' = Append(Unhold(timers, tok), GraceTimer(tok))
                        /\ sessionMap' = [sessionMap EXCEPT ![tok].timer = TRUE]
                   ELSE /\ out' = <<>>
                        /\ timers' = Unhold(timers, tok)
                        /\ sessionMap' = Remove(sessionMap, tok)
  /\ UNCHANGED <<used, limit>>

\* ------------------------------------------------------------------ idle checker
\* An idle checker that takes every connection for an inactive one.
Inactive_All(socks, s) == TRUE

\* now - socket.lastActive > INACTIVITY_LIMIT
Inactive(socks, s) == socks[s].lastActive = "old"

\* More than INACTIVITY_LIMIT has passed since the last inbound event of s.
GrowOld(s) ==
  /\ s \in Live
  /\ sockets[s].lastActive = "fresh"
  /\ sockets' = [sockets EXCEPT ![s].lastActive = "old"]
  /\ out' = <<>>
  /\ last' = Step("grow_old", s, sockets[s].sessionID)
  /\ UNCHANGED <<sessionMap, waitingQueue, timers, used, limit, searching, roomsMade, sentBy>>

\* socket.disconnect(true) on connection s: the disconnect handler run on the
\* state st = [socks, sess, q, tm, sr, out], what it emits added to st.out.
ForceDisconnect(st, s) ==
  LET tok == st.socks[s].sessionID
      socks1 == Remove(st.socks, s)
      gone == [st EXCEPT !.socks = socks1]
  IN IF tok \notin DOMAIN st.sess THEN gone
     ELSE IF Superseded(st.sess[tok], s) THEN gone
     ELSE IF st.sess[tok].roomID # NoRoom
     THEN [socks |-> socks1,
           sess |-> [st.sess EXCEPT ![tok].timer = TRUE],
           q |-> removeFromQueue(st.q, tok),
           tm |-> Append(Unhold(st.tm, tok), GraceTimer(tok)),
           sr |-> st.sr \ {tok},
           out |-> st.out \o EmitRoomExcept(socks1, st.sess[tok].roomID, s,
                                            "partner_reconnecting_server")]
     ELSE [socks |-> socks1,
           sess |-> Remove(st.sess, tok),
           q |-> removeFromQueue(st.q, tok),
           tm |-> Unhold(st.tm, tok),
           sr |-> st.sr \ {tok},
           out |-> st.out]

\* io.sockets.sockets.forEach(...): the connections of ids, in the order of
\* the map (the order in which they connected), each disconnected if inactive.
RECURSIVE Sweep(_, _)
Sweep(st, ids) ==
  IF ids = <<>> THEN st
  ELSE Sweep(IF Inactive(st.socks, Head(ids)) THEN ForceDisconnect(st, Head(ids))
             ELSE st,
             Tail(ids))

\* The callback of setInterval(..., 60 * 1000)
IdleCheck ==
  /\ LET r == Sweep([socks |-> sockets, sess |-> sessionMap, q |-> waitingQueue,
                     tm |-> timers, sr |-> searching, out |-> <<>>],
                    SetToSeq(Live))
     IN /\ sockets' = r.socks
        /\ sessionMap' = r.sess
        /\ waitingQueue' = r.q
        /\ timers' = r.tm
        /\ searching' = r.sr
        /\ out' = r.out
  /\ last' = Step("idle_check", 0, NoToken)
  /\ UNCHANGED <<used, limit, roomsMade, sentBy>>

\* ------------------------------------------------------------------ matching
IsGeneric(field) == field = "" \/ field = "Others"

\* user.username || 'Stranger' and user.field || '' of (socket.userData || {})
NameOf(userData) ==
  IF IsNull(userData) \/ Val(userData).username = "" THEN "Stranger"
  ELSE Val(userData).username
FieldOf(userData) == IF IsNull(userData) THEN "" ELSE Val(userData).field

\* An abort path that leaves the lock of the connected side set.
Unlock_Nothing(q, sessionID) == q

\* waitingQueue.find(u => u.sessionID === id): the entry's isMatched = false
Unlock(q, sessionID) ==
  LET i == FindEntry(q, sessionID)
  IN IF i = 0 THEN q ELSE [q EXCEPT ![i].isMatched = FALSE]

\* executeMatch(sessionID1, sessionID2), on a queue in which both entries are
\* locked already; yields the queue, the sessions, the sockets and the events.
executeMatch(q, sess, socks, sessionID1, sessionID2) ==
  LET socket1 == getSocketFromSession(sess, socks, sessionID1)
      socket2 == getSocketFromSession(sess, socks, sessionID2)
  IN IF socket1 = 0 \/ socket2 = 0
     THEN LET q1 == IF socket1 # 0 THEN Unlock(q, sessionID1) ELSE q
              q2 == IF socket2 # 0 THEN Unlock(q1, sessionID2) ELSE q1
          IN [q |-> q2, sess |-> sess, socks |-> socks, out |-> <<>>, done |-> {},
              room |-> {}]
     ELSE LET roomID == <<socket1, socket2>>
              socks1 == [socks EXCEPT ![socket1].rooms = @ \cup {roomID}]
              socks2 == [socks1 EXCEPT ![socket2].rooms = @ \cup {roomID}]
              sess1 == [sess EXCEPT ![sessionID1] =
                          [@ EXCEPT !.roomID = roomID,
                                    !.partnerSessionID = sessionID2,
                                    !.messageQueue = <<>>]]
              sess2 == [sess1 EXCEPT ![sessionID2] =
                          [@ EXCEPT !.roomID = roomID,
                                    !.partnerSessionID = sessionID1,
                                    !.messageQueue = <<>>]]
              user1Data == socks[socket1].userData
              user2Data == socks[socket2].userData
          IN [q |-> removeFromQueue(removeFromQueue(q, sessionID1), sessionID2),
              sess |-> sess2,
              socks |-> socks2,
              out |-> << [Ev(socket1, "matched") EXCEPT
                            !.name = NameOf(user2Data),
                            !.field = FieldOf(user2Data),
                            !.roomID = roomID],
                         [Ev(socket2, "matched") EXCEPT
                            !.name = NameOf(user1Data),
                            !.field = FieldOf(user1Data),
                            !.roomID = roomID] >>,
              done |-> {sessionID1, sessionID2},
              room |-> {roomID}]

\* The phase-2 timers a new phase-1 timer has to let go first.
Behind(tm) ==
  IF PHASE_2_DELAY < PHASE_1_DELAY
  THEN Cardinality({i \in 1..Len(tm) : tm[i].kind = "phase2"})
  ELSE 0

\* socket.on('find_partner'): hard reset, re-queue, start the phase-1 timer
FindPartner(s, userData) ==
  /\ s \in Live
  /\ used.searches < limit.searches
  /\ LET tok == sockets[s].sessionID
         socks1 == [Touch(sockets, s) EXCEPT ![s].userData = Some(userData)]
         hasSession == tok \in Sessions
         inRoom == hasSession /\ sessionMap[tok].roomID # NoRoom
     IN /\ sockets' = IF inRoom
                      THEN [socks1 EXCEPT ![s].rooms = @ \ {sessionMap[tok].roomID}]
                      ELSE socks1
        /\ sessionMap' = IF hasSession
                         THEN [sessionMap EXCEPT ![tok] =
                                 [@ EXCEPT !.userData = Some(userData),
                                           !.roomID = NoRoom,
                                           !.partnerSessionID = NoToken,
                                           !.messageQueue = <<>>]]
                         ELSE sessionMap
        /\ waitingQueue' = Append(removeFromQueue(waitingQueue, tok),
                                  [sessionID |-> tok, userData |-> userData,
                                   openToAny |-> FALSE, isMatched |-> FALSE])
        /\ timers' = Append(timers,
                            PhaseTimer("phase1", tok, userData.field, Behind(timers)))
        /\ out' = <<>>
        /\ searching' = IF hasSession THEN searching \cup {tok} ELSE searching
        /\ UNCHANGED <<roomsMade, sentBy>>
        /\ last' = Step("find_partner", s, tok)
  /\ used' = [used EXCEPT !.searches = @ + 1]
  /\ UNCHANGED limit

\* The timer at place i of the list can run now.
Due(i) ==
  /\ i \in 1..Len(timers)
  /\ \A j \in 1..(i - 1) : timers[j].kind # timers[i].kind
  /\ timers[i].behind = 0
  /\ (timers[i].kind = "grace" /\ PHASE_1_DELAY + PHASE_2_DELAY < RECONNECT_GRACE_PERIOD)
       => i = 1

DropTimer(tm, i) == SubSeq(tm, 1, i - 1) \o SubSeq(tm, i + 1, Len(tm))

\* A phase-2 timer has run: the phase-1 timers behind it move up.
MoveUp(tm) ==
  [i \in 1..Len(tm) |->
     IF tm[i].behind > 0 THEN [tm[i] EXCEPT !.behind = @ - 1] ELSE tm[i]]

\* A phase-1 scan that does not leave out locked entries and the scanner's own.
ExactMatch_AnyEntry(q, sessionID, field) ==
  LET C == {j \in 1..Len(q) :
              /\ q[j].userData.field = field
              /\ q[j].userData.field # ""
              /\ q[j].userData.field # "Others"}
  IN IF C = {} THEN 0 ELSE CHOOSE j \in C : \A k \in C : j <= k

\* A phase-1 scan that never finds an exact match.
ExactMatch_Never(q, sessionID, field) == 0

\* candidates.find(...) of phase 1: index of the first exact match, or 0
ExactMatch(q, sessionID, field) ==
  LET C == {j \in 1..Len(q) :
              /\ q[j].sessionID # sessionID
              /\ ~q[j].isMatched
              /\ q[j].userData.field = field
              /\ q[j].userData.field # ""
              /\ q[j].userData.field # "Others"}
  IN IF C = {} THEN 0 ELSE CHOOSE j \in C : \A k \in C : j <= k

\* A phase-2 scan that takes the acceptable entry inserted last.
AnyMatch_Latest(q, sessionID, field) ==
  LET C == {j \in 1..Len(q) :
              /\ q[j].sessionID # sessionID
              /\ ~q[j].isMatched
              /\ (q[j].openToAny \/ q[j].userData.field = field)}
  IN IF C = {} THEN 0 ELSE CHOOSE j \in C : \A k \in C : j >= k

\* openCandidates.find(...) of phase 2: index of the first acceptable entry, or 0
AnyMatch(q, sessionID, field) ==
  LET C == {j \in 1..Len(q) :
              /\ q[j].sessionID # sessionID
              /\ ~q[j].isMatched
              /\ (q[j].openToAny \/ q[j].userData.field = field)}
  IN IF C = {} THEN 0 ELSE CHOOSE j \in C : \A k \in C : j <= k

\* currentEntry.isMatched = true; match.isMatched = true; executeMatch(...)
LockAndMatch(q, i, j) ==
  executeMatch([q EXCEPT ![i].isMatched = TRUE, ![j].isMatched = TRUE],
               sessionMap, sockets, q[i].sessionID, q[j].sessionID)

\* The callback of the phase-1 timer
Phase1(i) ==
  /\ Due(i)
  /\ timers[i].kind = "phase1"
  /\ LET t == timers[i]
         cur == FindEntry(waitingQueue, t.sessionID)
         exact == IF IsGeneric(t.field) THEN 0
                  ELSE ExactMatch(waitingQueue, t.sessionID, t.field)
     IN /\ last' = Step("phase1", 0, t.sessionID)
        /\ IF cur = 0 \/ waitingQueue[cur].isMatched
           THEN /\ timers' = DropTimer(timers, i)
                /\ out' = <<>>
                /\ UNCHANGED <<sockets, sessionMap, waitingQueue, searching, roomsMade, sentBy>>
           ELSE IF exact # 0
           THEN LET r == LockAndMatch(waitingQueue, cur, exact)
                IN /\ waitingQueue' = r.q
                   /\ sessionMap' = r.sess
                   /\ sockets' = r.socks
                   /\ out' = r.out
                   /\ searching' = searching \ r.done
                   /\ roomsMade' = roomsMade \cup r.room
                   /\ UNCHANGED sentBy
                   /\ timers' = DropTimer(timers, i)
           ELSE /\ timers' = [timers EXCEPT ![i] =
                                PhaseTimer("phase2", t.sessionID, t.field, 0)]
                /\ out' = <<>>
                /\ UNCHANGED <<sockets, sessionMap, waitingQueue, searching, roomsMade, sentBy>>
  /\ UNCHANGED <<used, limit>>

\* The callback of the phase-2 timer
Phase2(i) ==
  /\ Due(i)
  /\ timers[i].kind = "phase2"
  /\ LET t == timers[i]
         cur == FindEntry(waitingQueue, t.sessionID)
     IN /\ last' = Step("phase2", 0, t.sessionID)
        /\ timers' = MoveUp(DropTimer(timers, i))
        /\ IF cur = 0 \/ waitingQueue[cur].isMatched
           THEN /\ out' = <<>>
                /\ UNCHANGED <<sockets, sessionMap, waitingQueue, searching, roomsMade, sentBy>>
           ELSE LET q1 == [waitingQueue EXCEPT ![cur].openToAny = TRUE]
                    any == AnyMatch(q1, t.sessionID, t.field)
                IN IF any # 0
                   THEN LET r == LockAndMatch(q1, cur, any)
                        IN /\ waitingQueue' = r.q
                           /\ sessionMap' = r.sess
                           /\ sockets' = r.socks
                           /\ out' = r.out
                           /\ searching' = searching \ r.done
                           /\ roomsMade' = roomsMade \cup r.room
                           /\ UNCHANGED sentBy
                   ELSE /\ waitingQueue' = q1
                        /\ out' = <<>>
                        /\ UNCHANGED <<sockets, sessionMap, searching, roomsMade, sentBy>>
  /\ UNCHANGED <<used, limit>>

\* ------------------------------------------------------------------ grace expiry
\* cleanupSession(sessionID), as the grace timer calls it; tm is the list
\* without the timer that is running.
cleanupSession(tm, sessionID) ==
  IF sessionID \notin Sessions
  THEN [tm |-> tm, sess |-> sessionMap, socks |-> sockets, q |-> waitingQueue,
        out |-> <<>>]
  ELSE LET session == sessionMap[sessionID]
           paired == session.roomID # NoRoom
       IN [tm |-> Unhold(IF session.timer THEN clearTimeout(tm, sessionID) ELSE tm,
                         sessionID),
           sess |-> Remove(sessionMap, sessionID),
           socks |-> IF paired THEN socketsLeave(sockets, session.roomID) ELSE sockets,
           q |-> removeFromQueue(waitingQueue, sessionID),
           out |-> IF paired THEN EmitRoom(sockets, session.roomID, "partner_disconnected")
                   ELSE <<>>]

\* The callback of the grace timer set by the disconnect handler
GraceExpire(i) ==
  /\ Due(i)
  /\ timers[i].kind = "grace"
  /\ LET r == cleanupSession(DropTimer(timers, i), timers[i].sessionID)
     IN /\ timers' = r.tm
        /\ sessionMap' = r.sess
        /\ sockets' = r.socks
        /\ waitingQueue' = r.q
        /\ out' = r.out
  /\ searching' = searching \ {timers[i].sessionID}
  /\ UNCHANGED <<roomsMade, sentBy>>
  /\ last' = Step("grace", 0, timers[i].sessionID)
  /\ UNCHANGED <<used, limit>>

\* ------------------------------------------------------------------ room events
Texts == <<"m1", "m2", "m3", "m4">>

\* send_message stores the message: the sender is paired, the partner's session
\* exists and its current connection is not live
Stores(s) ==
  LET tok == sockets[s].sessionID
  IN /\ tok \in Sessions
     /\ sessionMap[tok].roomID # NoRoom
     /\ sessionMap[tok].partnerSessionID \in Sessions
     /\ sessionMap[sessionMap[tok].partnerSessionID].socketId \notin Live

\* socket.on('send_message')
SendMessage(s) ==
  /\ s \in Live
  /\ used.messages < limit.messages
  /\ used' = [used EXCEPT !.messages = @ + 1]
  /\ last' = Step("send_message", s, sockets[s].sessionID)
  /\ LET tok == sockets[s].sessionID
         text == Texts[used.messages + 1]
         socks0 == Touch(sockets, s)
     IN IF tok \notin Sessions \/ sessionMap[tok].roomID = NoRoom
        THEN /\ sockets' = socks0
             /\ out' = <<>>
             /\ UNCHANGED sessionMap
        ELSE LET session == sessionMap[tok]
                 partnerSessionID == session.partnerSessionID
                 hasPartner == partnerSessionID \in Sessions
                 sent == hasPartner /\ sessionMap[partnerSessionID].socketId \in Live
                 socks1 == [socks0 EXCEPT ![s].rooms = @ \cup {session.roomID}]
             IN IF sent
                THEN /\ sockets' = socks1
                     /\ out' = [i \in 1..Len(EmitRoomExcept(socks1, session.roomID, s, "receive_message")) |->
                                  [EmitRoomExcept(socks1, session.roomID, s, "receive_message")[i]
                                     EXCEPT !.text = text]]
                     /\ UNCHANGED sessionMap
                ELSE /\ sockets' = socks0
                     /\ out' = <<>>
                     /\ sessionMap' =
                          IF hasPartner
                          THEN [sessionMap EXCEPT ![partnerSessionID].messageQueue =
                                  Append(@, text)]
                          ELSE sessionMap
  /\ sentBy' = IF Stores(s) THEN sentBy \cup {<<Texts[used.messages + 1], sockets[s].sessionID>>}
                ELSE sentBy
  /\ UNCHANGED <<waitingQueue, timers, limit, searching, roomsMade>>

\* A relay that stores the event for a partner who has no live connection.
Relay_Buffered(s, op, ev) ==
  /\ s \in Live
  /\ used.messages < limit.messages
  /\ used' = [used EXCEPT !.messages = @ + 1]
  /\ last' = Step(op, s, sockets[s].sessionID)
  /\ sockets' = Touch(sockets, s)
  /\ LET tok == sockets[s].sessionID
         paired == tok \in Sessions /\ sessionMap[tok].roomID # NoRoom
         partner == IF paired THEN sessionMap[tok].partnerSessionID ELSE NoToken
     IN /\ out' = IF paired
                  THEN EmitRoomExcept(sockets, sessionMap[tok].roomID, s, ev)
                  ELSE <<>>
        /\ sessionMap' = IF partner \in Sessions /\ sessionMap[partner].socketId \notin Live
                         THEN [sessionMap EXCEPT ![partner].messageQueue = Append(@, ev)]
                         ELSE sessionMap
  /\ UNCHANGED <<waitingQueue, timers, limit, searching, roomsMade, sentBy>>

\* socket.on('typing') and socket.on('send_reaction'): relayed to the room, never stored
Relay(s, op, ev) ==
  /\ s \in Live
  /\ used.messages < limit.messages
  /\ used' = [used EXCEPT !.messages = @ + 1]
  /\ last' = Step(op, s, sockets[s].sessionID)
  /\ sockets' = Touch(sockets, s)
  /\ LET tok == sockets[s].sessionID
     IN out' = IF tok \in Sessions /\ sessionMap[tok].roomID # NoRoom
               THEN EmitRoomExcept(sockets, sessionMap[tok].roomID, s, ev)
               ELSE <<>>
  /\ UNCHANGED <<sessionMap, waitingQueue, timers, limit, searching, roomsMade, sentBy>>

Typing(s) == Relay(s, "typing", "partner_typing")
SendReaction(s) == Relay(s, "send_reaction", "receive_reaction")

\* A leave that cleans the whole session up, as the grace timer does.
EndChat_Cleanup(sess, sessionID) == Remove(sess, sessionID)

\* session.roomID = null
EndChat(sess, sessionID) == [sess EXCEPT ![sessionID].roomID = NoRoom]

\* socket.on('disconnect_partner')
DisconnectPartner(s) ==
  /\ s \in Live
  /\ last' = Step("disconnect_partner", s, sockets[s].sessionID)
  /\ LET tok == sockets[s].sessionID
         socks0 == Touch(sockets, s)
     IN /\ IF tok \in Sessions /\ sessionMap[tok].roomID # NoRoom
           THEN /\ out' = EmitRoomExcept(sockets, sessionMap[tok].roomID, s,
                                         "partner_disconnected")
                /\ sockets' = socketsLeave(socks0, sessionMap[tok].roomID)
                /\ sessionMap' = EndChat(sessionMap, tok)
           ELSE /\ out' = <<>>
                /\ sockets' = socks0
                /\ UNCHANGED sessionMap
        /\ waitingQueue' = removeFromQueue(waitingQueue, tok)
        /\ searching' = searching \ {tok}
        /\ UNCHANGED <<roomsMade, sentBy>>
  /\ UNCHANGED <<timers, used, limit>>

\* ------------------------------------------------------------------ specifications
Connections ==
  \/ Reject
  \/ \E tok \in Tokens : ConnectNew(tok)
  \/ \E tok \in Tokens : Reconnect(tok)
  \/ \E s \in Live : Disconnect(s)

Searches ==
  \/ \E s \in Live : \E userData \in ProfilesOf(sockets[s].sessionID) :
        FindPartner(s, userData)
  \/ \E i \in 1..Len(timers) : Phase1(i)
  \/ \E i \in 1..Len(timers) : Phase2(i)
  \/ \E s \in Live : DisconnectPartner(s)
  \/ \E i \in 1..Len(timers) : GraceExpire(i)

RoomEvents ==
  \/ \E s \in Live : SendMessage(s)
  \/ \E s \in Live : Typing(s)
  \/ \E s \in Live : SendReaction(s)

Next == Connections \/ Searches \/ RoomEvents

Spec == Init /\ [][Next]_vars

InitPool ==
  /\ InitState
  /\ limit = [tokens |-> PoolTokens, sockets |-> PoolSockets,
              searches |-> PoolSearches, messages |-> 0]

NextPool == Connections \/ Searches

SpecPool == InitPool /\ [][NextPool]_vars

InitTabs ==
  /\ InitState
  /\ limit = [tokens |-> TabsTokens, sockets |-> TabsSockets,
              searches |-> TabsSearches, messages |-> TabsMessages]

SpecTabs == InitTabs /\ [][Next]_vars

InitRepeat ==
  /\ InitState
  /\ limit = [tokens |-> RepeatTokens, sockets |-> RepeatSockets,
              searches |-> RepeatSearches, messages |-> 0]

SpecRepeat == InitRepeat /\ [][NextPool]_vars

InitIdle ==
  /\ InitState
  /\ limit = [tokens |-> IdleTokens, sockets |-> IdleSockets,
              searches |-> IdleSearches, messages |-> IdleMessages]

IdleEvents ==
  \/ \E s \in Live : GrowOld(s)
  \/ IdleCheck

NextIdle == Next \/ IdleEvents

SpecIdle == InitIdle /\ [][NextIdle]_vars

\* ------------------------------------------------------------------ properties
Paired(t) == t \in Sessions /\ sessionMap[t].roomID # NoRoom
Emitted(o, ev) == {i \in DOMAIN o : o[i].ev = ev}
EntryOf(q, t) == q[FindEntry(q, t)]
CurrentLive(t) == t \in Sessions /\ sessionMap[t].socketId \in Live

\* C1: no double pairing.  Whatever the order in which the timers of the
\* waiting sessions run, a step that pairs sessions pairs exactly two distinct
\* sessions; both were in the pool, unlocked and in no room before the step,
\* both are out of the pool after it, they point at each other with one room id,
\* and no other session is changed: no entry is selected by two scans and no
\* session is put into two pairs.
C1_NoDoublePairing ==
  [][ Emitted(out', "matched") # {} =>
        \E t1, t2 \in Sessions :
          /\ t1 # t2
          /\ InQueue(waitingQueue, t1) /\ InQueue(waitingQueue, t2)
          /\ ~EntryOf(waitingQueue, t1).isMatched
          /\ ~EntryOf(waitingQueue, t2).isMatched
          /\ ~Paired(t1) /\ ~Paired(t2)
          /\ ~InQueue(waitingQueue', t1) /\ ~InQueue(waitingQueue', t2)
          /\ Len(out') = 2
          /\ out'[1].ev = "matched" /\ out'[1].to = sessionMap[t1].socketId
          /\ out'[2].ev = "matched" /\ out'[2].to = sessionMap[t2].socketId
          /\ out'[1].roomID = out'[2].roomID
          /\ sessionMap'[t1].roomID = out'[1].roomID
          /\ sessionMap'[t2].roomID = out'[1].roomID
          /\ sessionMap'[t1].partnerSessionID = t2
          /\ sessionMap'[t2].partnerSessionID = t1
          /\ \A t \in Sessions \ {t1, t2} :
               t \in DOMAIN sessionMap' /\ sessionMap'[t] = sessionMap[t]
    ]_vars

\* Three sessions searched the same topic; two were paired, the third waits.
C1_Witness ==
  /\ Len(out) = 2
  /\ out[1].ev = "matched" /\ out[1].field = "math"
  /\ out[2].ev = "matched" /\ out[2].field = "math"
  /\ Len(waitingQueue) = 1
  /\ waitingQueue[1].userData.field = "math"
  /\ ~waitingQueue[1].isMatched

\* C2: at every moment a session has a room exactly if it has a partner link,
\* and partner links are symmetric: the partner exists, points back, and has
\* the same room.
C2_PartnerLinks ==
  \A t \in Sessions :
    /\ (sessionMap[t].roomID # NoRoom) <=> (sessionMap[t].partnerSessionID # NoToken)
    /\ sessionMap[t].partnerSessionID # NoToken =>
         LET p == sessionMap[t].partnerSessionID
         IN /\ p \in Sessions
            /\ sessionMap[p].partnerSessionID = t
            /\ sessionMap[p].roomID = sessionMap[t].roomID

\* C3: the disconnect of a connection that the session has already left for a
\* newer one changes nothing: the pool, the sessions (so the room and the
\* session itself), the timers (no grace timer is started) and the room
\* memberships of the other connections stay as they are, nobody is notified,
\* and no grace timer runs for a session that is connected.
C3_StaleDisconnect ==
  [][ \A s \in Live :
        ( /\ Disconnect(s)
          /\ sockets[s].sessionID \in Sessions
          /\ sessionMap[sockets[s].sessionID].socketId # s )
        => /\ UNCHANGED <<sessionMap, waitingQueue, timers>>
           /\ sockets' = Remove(sockets, s)
           /\ out' = <<>>
           /\ LET tok == sockets[s].sessionID
              IN sessionMap[tok].socketId \in Live =>
                   \A i \in 1..Len(timers') :
                     ~(timers'[i].kind = "grace" /\ timers'[i].sessionID = tok)
    ]_vars

\* The old connection of a paired session has gone after the session moved to
\* a new connection; the session is still paired and connected.
C3_Witness ==
  /\ last.op = "disconnect"
  /\ Paired(last.token)
  /\ sessionMap[last.token].socketId # last.sock
  /\ CurrentLive(last.token)
  /\ Paired(sessionMap[last.token].partnerSessionID)

\* Sessions t and its partner point at each other and share one room.
Linked(t) ==
  /\ Paired(t)
  /\ Paired(sessionMap[t].partnerSessionID)
  /\ sessionMap[sessionMap[t].partnerSessionID].partnerSessionID = t
  /\ sessionMap[sessionMap[t].partnerSessionID].roomID = sessionMap[t].roomID

GraceRuns(tm, t) ==
  \E i \in 1..Len(tm) : tm[i].kind = "grace" /\ tm[i].sessionID = t

Received(o, s, ev) == \E i \in DOMAIN o : o[i].to = s /\ o[i].ev = ev

\* C4: reconnection within the grace window.  When the connection of A, paired
\* with B, goes away, B is told partner_reconnecting_server and A's grace timer
\* starts; when A reconnects while that timer is pending, the timer is
\* cancelled, B is told partner_connected, both sessions keep their room, and
\* neither step emits partner_disconnected; a message either of them sends
\* while both are connected reaches the other's connection.
C4_ReconnectWithinGrace ==
  [][ \A a \in Sessions :
        LET b == sessionMap[a].partnerSessionID
        IN Linked(a) =>
             /\ ( /\ last'.op = "disconnect" /\ last'.token = a
                  /\ last'.sock = sessionMap[a].socketId )
                => /\ CurrentLive(b) =>
                        Received(out', sessionMap[b].socketId,
                                 "partner_reconnecting_server")
                   /\ Emitted(out', "partner_disconnected") = {}
                   /\ GraceRuns(timers', a)
                   /\ sessionMap'[a].timer
                   /\ sessionMap'[a].roomID = sessionMap[a].roomID
                   /\ sessionMap'[b] = sessionMap[b]
             /\ ( /\ last'.op = "reconnect" /\ last'.token = a
                  /\ sessionMap[a].timer )
                => /\ ~GraceRuns(timers', a)
                   /\ ~sessionMap'[a].timer
                   /\ CurrentLive(b) =>
                        Received(out', sessionMap[b].socketId, "partner_connected")
                   /\ Emitted(out', "partner_disconnected") = {}
                   /\ sessionMap'[a].roomID = sessionMap[a].roomID
                   /\ sessionMap'[b] = sessionMap[b]
             /\ ( /\ last'.op = "send_message" /\ last'.token = a
                  /\ last'.sock = sessionMap[a].socketId
                  /\ CurrentLive(b) )
                => \E i \in DOMAIN out' :
                     /\ out'[i].to = sessionMap[b].socketId
                     /\ out'[i].ev = "receive_message"
                     /\ out'[i].text = Texts[used'.messages]
    ]_vars

\* A came back on a new connection after its only connection had gone: B, still
\* connected, was told so, and the pair is intact with no grace timer left.
C4_Witness ==
  /\ last.op = "reconnect"
  /\ Linked(last.token)
  /\ {s \in Live : sockets[s].sessionID = last.token} = {last.sock}
  /\ CurrentLive(sessionMap[last.token].partnerSessionID)
  /\ Received(out, sessionMap[sessionMap[last.token].partnerSessionID].socketId,
              "partner_connected")
  /\ ~GraceRuns(timers, last.token)

\* C5: grace expiry.  When the grace timer of A, paired with B, runs out, A's
\* session is removed (a later connection with A's token finds no session and
\* starts a new one), B, if connected, receives exactly one
\* partner_disconnected, and the room is torn down: no connection is left in
\* it and no session, B's included, still refers to it, whether B is connected
\* at that moment or not.
C5_GraceExpiry ==
  [][ \A a \in Sessions :
        ( Linked(a) /\ last'.op = "grace" /\ last'.token = a ) =>
          LET b == sessionMap[a].partnerSessionID
              r == sessionMap[a].roomID
          IN /\ a \notin DOMAIN sessionMap'
             /\ CurrentLive(b) =>
                  Cardinality({i \in DOMAIN out' :
                                 /\ out'[i].ev = "partner_disconnected"
                                 /\ sockets[out'[i].to].sessionID = b}) = 1
             /\ InRoom(sockets', r) = {}
             /\ \A t \in DOMAIN sessionMap' : sessionMap'[t].roomID # r
    ]_vars

\* The texts of the receive_message events a step addressed to connection s.
TextsTo(o, s) ==
  LET K(e) == e.to = s /\ e.ev = "receive_message"
  IN [i \in 1..Len(SelectSeq(o, K)) |-> SelectSeq(o, K)[i].text]

\* C6: buffer round trip.  A message that A sends while its partner B is
\* disconnected with its grace timer running is appended to B's messageQueue;
\* when B reconnects, its new connection receives the buffered messages, each
\* once and in the order in which they were sent, and the messageQueue is
\* empty afterwards.
C6_BufferRoundTrip ==
  [][ \A a \in Sessions :
        LET b == sessionMap[a].partnerSessionID
        IN /\ ( /\ last'.op = "send_message" /\ last'.token = a
                /\ Paired(a)
                /\ b \in Sessions
                /\ sessionMap[b].timer
                /\ ~CurrentLive(b) )
              => sessionMap'[b].messageQueue =
                   Append(sessionMap[b].messageQueue, Texts[used'.messages])
           /\ ( last'.op = "reconnect" /\ last'.token = a )
              => /\ TextsTo(out', last'.sock) = sessionMap[a].messageQueue
                 /\ sessionMap'[a].messageQueue = <<>>
    ]_vars

\* C7: send_message.  From a session without a room it has no effect.  From a
\* session with a room exactly one of two things happens: the payload reaches
\* the partner's current live connection, or it is appended to the partner's
\* messageQueue; it is never dropped, and nothing is sent back to the sender.
C7_SendMessage ==
  [][ \A s \in Live :
        ( last'.op = "send_message" /\ last'.sock = s ) =>
          LET a == sockets[s].sessionID
              text == Texts[used'.messages]
          IN IF ~Paired(a)
             THEN /\ out' = <<>>
                  /\ UNCHANGED <<sessionMap, waitingQueue, timers>>
                  /\ \A x \in Live : sockets'[x].rooms = sockets[x].rooms
             ELSE LET b == sessionMap[a].partnerSessionID
                      delivered ==
                        /\ CurrentLive(b)
                        /\ \E i \in DOMAIN out' :
                             /\ out'[i].to = sessionMap[b].socketId
                             /\ out'[i].ev = "receive_message"
                             /\ out'[i].text = text
                      buffered ==
                        /\ b \in Sessions
                        /\ sessionMap'[b].messageQueue =
                             Append(sessionMap[b].messageQueue, text)
                  IN /\ delivered \/ buffered
                     /\ ~(delivered /\ buffered)
                     /\ \A i \in DOMAIN out' : out'[i].to # s
    ]_vars

\* C8: in every state a session has an entry in the waiting pool exactly if
\* its roomID is null and it has an outstanding search, that is a find_partner
\* not yet ended by a match, a disconnect_partner or the disconnect of its
\* connection; in particular a session with an entry has no room.
C8_PoolIffSearching ==
  \A t \in Sessions :
    InQueue(waitingQueue, t) <=> (sessionMap[t].roomID = NoRoom /\ t \in searching)

\* C9: in every state the waiting pool holds at most one entry for a token, and
\* a session's entry is gone after the very step that matches the session or
\* in which its current connection disconnects.
C9_OneEntryPerToken ==
  /\ [](\A i, j \in 1..Len(waitingQueue) :
          waitingQueue[i].sessionID = waitingQueue[j].sessionID => i = j)
  /\ [][ \A t \in Sessions :
           /\ ( /\ t \in DOMAIN sessionMap'
                /\ sessionMap'[t].roomID # NoRoom
                /\ sessionMap'[t].roomID # sessionMap[t].roomID )
              => ~InQueue(waitingQueue', t)
           /\ ( /\ last'.op = "disconnect" /\ last'.token = t
                /\ last'.sock = sessionMap[t].socketId )
              => ~InQueue(waitingQueue', t)
       ]_vars

\* A session that was searching (its phase timer is still pending) lost its
\* connection: its entry has gone, the entries of the others are still there.
C9_Witness ==
  /\ last.op = "disconnect"
  /\ last.token \notin Sessions
  /\ \E i \in 1..Len(timers) :
       timers[i].sessionID = last.token /\ timers[i].kind = "phase1"
  /\ ~InQueue(waitingQueue, last.token)
  /\ Len(waitingQueue) = 2

\* Session a waits with an unlocked entry of the non-generic topic f.
Waits(a, f) ==
  /\ a \in Sessions
  /\ InQueue(waitingQueue, a)
  /\ ~EntryOf(waitingQueue, a).isMatched
  /\ EntryOf(waitingQueue, a).userData.field = f
  /\ ~IsGeneric(f)

\* The phase-1 timer that runs next, as an index of timers (0: none is pending).
NextPhase1 ==
  IF \E i \in 1..Len(timers) : timers[i].kind = "phase1"
  THEN CHOOSE i \in 1..Len(timers) :
         /\ timers[i].kind = "phase1"
         /\ \A j \in 1..(i - 1) : timers[j].kind # "phase1"
  ELSE 0

\* C10: sessions A and B search the same non-empty, non-generic topic within
\* one phase-1 window of each other, so both are in the pool when the first of
\* their phase-1 timers runs, and both are connected; no third session waits
\* with that topic.  Then that timer step sends matched to both, with one room
\* id and each event carrying the name the other one submitted, and neither
\* has an entry in the pool after it.
C10_ExactMatchInWindow ==
  [][ \A a, b \in Sessions :
        ( /\ last'.op = "phase1"
          /\ a # b
          /\ timers[NextPhase1].sessionID = a
          /\ Waits(a, timers[NextPhase1].field)
          /\ Waits(b, timers[NextPhase1].field)
          /\ CurrentLive(a) /\ CurrentLive(b)
          /\ \A c \in Sessions \ {a, b} : ~Waits(c, timers[NextPhase1].field) )
        => /\ \E i, j \in DOMAIN out' :
                /\ out'[i].ev = "matched" /\ out'[i].to = sessionMap[a].socketId
                /\ out'[j].ev = "matched" /\ out'[j].to = sessionMap[b].socketId
                /\ out'[i].roomID = out'[j].roomID
                /\ out'[i].name = NameOf(Some(EntryOf(waitingQueue, b).userData))
                /\ out'[j].name = NameOf(Some(EntryOf(waitingQueue, a).userData))
           /\ ~InQueue(waitingQueue', a)
           /\ ~InQueue(waitingQueue', b)
    ]_vars

\* The step pairs sessions a and b, which both waited in the pool.
Pairs(a, b) ==
  /\ a # b
  /\ InQueue(waitingQueue, a) /\ InQueue(waitingQueue, b)
  /\ a \in DOMAIN sessionMap' /\ b \in DOMAIN sessionMap'
  /\ sessionMap'[a].roomID # NoRoom
  /\ sessionMap'[a].roomID # sessionMap[a].roomID
  /\ sessionMap'[b].roomID = sessionMap'[a].roomID
  /\ sessionMap'[a].partnerSessionID = b
  /\ sessionMap'[b].partnerSessionID = a

\* C11: a session A whose topic is non-generic and a session B whose topic is
\* generic ('' or 'Others') are never paired by a phase-1 scan: the step that
\* pairs them is the phase-2 callback of one of the two, which runs phase-1
\* plus phase-2 delay after that session's search and has made its entry
\* openToAny.
C11_GenericOnlyInPhase2 ==
  [][ \A a, b \in Sessions :
        ( /\ Pairs(a, b)
          /\ ~IsGeneric(EntryOf(waitingQueue, a).userData.field)
          /\ IsGeneric(EntryOf(waitingQueue, b).userData.field) )
        => /\ last'.op = "phase2"
           /\ last'.token \in {a, b}
    ]_vars

\* The step is the disconnect_partner of connection s, whose session is paired.
Leaves(s) ==
  /\ s \in Live
  /\ last'.op = "disconnect_partner" /\ last'.sock = s
  /\ Paired(sockets[s].sessionID)

\* What every leave of a paired session does, whoever is in the room: B's
\* current connection, if B is linked and connected, is told
\* partner_disconnected once, the calling connection receives nothing, and A's
\* session and connection stay, so that A can search again at once.
LeaveKeepsSession(s) ==
  LET a == sockets[s].sessionID
      b == sessionMap[a].partnerSessionID
  IN /\ \A i \in DOMAIN out' :
          /\ out'[i].ev = "partner_disconnected"
          /\ out'[i].to # s
          /\ out'[i].to \in InRoom(sockets, sessionMap[a].roomID)
     /\ (Linked(a) /\ CurrentLive(b) /\ sessionMap[b].socketId # s) =>
          Cardinality({i \in DOMAIN out' : out'[i].to = sessionMap[b].socketId}) = 1
     /\ a \in DOMAIN sessionMap'
     /\ sessionMap'[a].socketId = sessionMap[a].socketId
     /\ s \in DOMAIN sockets'
     /\ sockets'[s].sessionID = a

C13_LeaveTearsDownBothSides ==
  [][ \A s \in Live :
        ( Leaves(s) /\ Linked(sockets[s].sessionID) ) =>
          \A t \in {sockets[s].sessionID,
                    sessionMap[sockets[s].sessionID].partnerSessionID} :
            /\ t \in DOMAIN sessionMap'
            /\ sessionMap'[t].roomID = NoRoom
            /\ sessionMap'[t].partnerSessionID = NoToken
            /\ sessionMap'[t].messageQueue = <<>>
    ]_vars

\* C14: leave is idempotent.  A disconnect_partner of a session directly
\* after another disconnect_partner of the same session changes no session,
\* no pool entry, no timer and no room membership, and notifies nobody.
C14_LeaveIdempotent ==
  [][ ( /\ last.op = "disconnect_partner"
        /\ last'.op = "disconnect_partner"
        /\ last'.token = last.token )
      => /\ UNCHANGED <<sessionMap, waitingQueue, timers>>
         /\ DOMAIN sockets' = DOMAIN sockets
         /\ \A s \in Live : sockets'[s].rooms = sockets[s].rooms
         /\ out' = <<>>
    ]_vars

\* A session left its partner, who is still connected and still holds the old
\* room, and then left once more: the second leave told nobody, and the entry
\* of a third session is still in the pool.
C14_Witness ==
  /\ last.op = "disconnect_partner"
  /\ out = <<>>
  /\ last.token \in Sessions
  /\ sessionMap[last.token].roomID = NoRoom
  /\ sessionMap[last.token].partnerSessionID \in Sessions
  /\ CurrentLive(sessionMap[last.token].partnerSessionID)
  /\ sessionMap[sessionMap[last.token].partnerSessionID].roomID # NoRoom
  /\ sessionMap[sessionMap[last.token].partnerSessionID].partnerSessionID = last.token
  /\ Len(waitingQueue) = 1

\* C15: hard reset.  A find_partner of a session that is paired clears the
\* session's own roomID and partnerSessionID in that step, and the connection
\* of its old partner receives partner_disconnected in that step.
C15_HardResetNotifiesPartner ==
  [][ \A s \in Live :
        ( /\ last'.op = "find_partner" /\ last'.sock = s
          /\ Linked(sockets[s].sessionID)
          /\ CurrentLive(sessionMap[sockets[s].sessionID].partnerSessionID) )
        => /\ sessionMap'[sockets[s].sessionID].roomID = NoRoom
           /\ sessionMap'[sockets[s].sessionID].partnerSessionID = NoToken
           /\ Received(out',
                sessionMap[sessionMap[sockets[s].sessionID].partnerSessionID].socketId,
                "partner_disconnected")
    ]_vars

\* The step is the disconnect of connection s, the current connection of a
\* session that has a pool entry and no room.
DropsWhileSearching(s) ==
  /\ s \in Live
  /\ last'.op = "disconnect" /\ last'.sock = s
  /\ sockets[s].sessionID \in Sessions
  /\ sessionMap[sockets[s].sessionID].socketId = s
  /\ sessionMap[sockets[s].sessionID].roomID = NoRoom
  /\ InQueue(waitingQueue, sockets[s].sessionID)

\* C16: when the current connection of a searching session (in the pool, not
\* paired) disconnects, the session's pool entry is removed in that step and no
\* grace timer is started for it; and a scan can only pair sessions that have
\* an entry in the pool when it runs, so no later scan can select the entry.
C16_SearcherDropsAtOnce ==
  [][ /\ \A s \in Live :
           DropsWhileSearching(s)
           => /\ ~InQueue(waitingQueue', sockets[s].sessionID)
              /\ ~GraceRuns(timers', sockets[s].sessionID)
              /\ Len(waitingQueue') = Len(waitingQueue) - 1
      /\ \A t \in Sessions :
           ( /\ t \in DOMAIN sessionMap'
             /\ sessionMap'[t].roomID # NoRoom
             /\ sessionMap'[t].roomID # sessionMap[t].roomID )
           => InQueue(waitingQueue, t)
    ]_vars

\* A session that had waited through phase 1 (its phase-2 timer is still
\* pending) lost its connection: its entry has gone, no grace timer runs, and
\* the entry of another session is still in the pool.
C16_Witness ==
  /\ last.op = "disconnect"
  /\ last.token \notin Sessions
  /\ \E i \in 1..Len(timers) :
       timers[i].sessionID = last.token /\ timers[i].kind = "phase2"
  /\ \A i \in 1..Len(timers) : timers[i].kind # "grace"
  /\ ~InQueue(waitingQueue, last.token)
  /\ Len(waitingQueue) = 1

\* C17: a connection that supplies no session token is closed at once and
\* leaves the server state as it was: no session, no pool entry, no timer, no
\* event, and no connection whose handlers could run.
C17_NoTokenNoState ==
  [][ last'.op = "reject"
      => /\ UNCHANGED <<sockets, sessionMap, waitingQueue, timers, searching>>
         /\ out' = <<>>
         /\ last'.sock \notin DOMAIN sockets'
         /\ NoToken \notin DOMAIN sessionMap'
    ]_vars

\* A connection without a token was turned away while a session was waiting in
\* the pool.
C17_Witness ==
  /\ last.op = "reject"
  /\ last.sock \notin Live
  /\ Sessions # {}
  /\ waitingQueue # <<>>
  /\ timers # <<>>

\* The step is a scan that selected a pair and then gave the pairing up: an
\* entry that was unlocked is locked after it.
Aborts ==
  /\ last'.op \in {"phase1", "phase2"}
  /\ \E t \in Tokens :
       /\ InQueue(waitingQueue, t) /\ ~EntryOf(waitingQueue, t).isMatched
       /\ InQueue(waitingQueue', t) /\ EntryOf(waitingQueue', t).isMatched

\* C18: pairing abort.  A scan pairs two sessions only when both have a live
\* current connection.  When it gives a pairing up, no room is made, no session
\* is changed, nothing is emitted, no entry leaves the pool, and the entry of
\* a selected session that has a live current connection is unlocked after
\* the step: only entries of sessions without one are left locked.
C18_PairingAbort ==
  [][ /\ \A a, b \in Sessions : Pairs(a, b) => CurrentLive(a) /\ CurrentLive(b)
      /\ Aborts
         => /\ UNCHANGED <<sockets, sessionMap>>
            /\ out' = <<>>
            /\ Len(waitingQueue') = Len(waitingQueue)
            /\ \A i \in 1..Len(waitingQueue) :
                 /\ waitingQueue'[i].sessionID = waitingQueue[i].sessionID
                 /\ waitingQueue'[i].userData = waitingQueue[i].userData
                 /\ waitingQueue'[i].openToAny = waitingQueue[i].openToAny
                      \/ waitingQueue[i].sessionID = last'.token
                 /\ ( /\ ~waitingQueue[i].isMatched
                      /\ CurrentLive(waitingQueue[i].sessionID) )
                    => ~waitingQueue'[i].isMatched
    ]_vars

\* A scan gave a pairing up: the entry of a session without a live connection
\* is locked, the entry of a connected session is in the pool and unlocked, and
\* neither session is in a room.
C18_Witness ==
  /\ last.op \in {"phase1", "phase2"}
  /\ out = <<>>
  /\ \E i, j \in 1..Len(waitingQueue) :
       /\ waitingQueue[i].isMatched
       /\ ~CurrentLive(waitingQueue[i].sessionID)
       /\ ~waitingQueue[j].isMatched
       /\ CurrentLive(waitingQueue[j].sessionID)
       /\ sessionMap[waitingQueue[j].sessionID].roomID = NoRoom
       /\ last.token \in {waitingQueue[i].sessionID, waitingQueue[j].sessionID}

\* C19: every pairing gets a room id that no earlier pairing of the run had,
\* also when the same two connections are paired again.
C19_FreshRoomId ==
  [][ \A a, b \in Sessions :
        Pairs(a, b) => sessionMap'[a].roomID \notin roomsMade ]_vars

\* Session t is in the store before the step and not after it.
Deleted(t) == t \in Sessions /\ t \notin DOMAIN sessionMap'

C21_RelayNotBuffered ==
  [][ /\ last'.op \in {"typing", "send_reaction"} => sessionMap' = sessionMap
      /\ last'.op = "reconnect"
         => /\ \A i \in DOMAIN out' :
                 /\ out'[i].ev \notin {"partner_typing", "receive_reaction"}
                 /\ out'[i].to = last'.sock
                    => out'[i].ev \in {"session_restored", "receive_message"}
            /\ TextsTo(out', last'.sock) \in {<<>>, sessionMap[last'.token].messageQueue}
            /\ \A i \in 1..Len(TextsTo(out', last'.sock)) :
                 \E k \in 1..Len(Texts) : TextsTo(out', last'.sock)[i] = Texts[k]
    ]_vars

\* A paired session typed or reacted while its partner was away with its grace
\* timer running and a message waiting for it: nothing was emitted and the
\* partner's messageQueue still holds that one message.
C21_Witness ==
  /\ last.op \in {"typing", "send_reaction"}
  /\ Paired(last.token)
  /\ sessionMap[last.token].partnerSessionID \in Sessions
  /\ ~CurrentLive(sessionMap[last.token].partnerSessionID)
  /\ sessionMap[sessionMap[last.token].partnerSessionID].timer
  /\ sessionMap[sessionMap[last.token].partnerSessionID].messageQueue = <<Texts[1]>>
  /\ out = <<>>

\* An event a client sends on connection s, or its connecting
Inbound ==
  {"connect", "reconnect", "find_partner", "send_message", "typing",
   "send_reaction", "disconnect_partner"}

\* C22: idle eviction.  A sweep of the idle checker disconnects every
\* connection whose last inbound event is older than INACTIVITY_LIMIT and runs
\* the disconnect transition for it: if it is its session's current connection,
\* the session's pool entry is removed, and the session is deleted when it has
\* no room, or its grace timer is started and the connected members of its room
\* are told partner_reconnecting_server when it has one.  The sweep leaves every
\* other connection as it is; and every inbound event makes its connection's
\* last activity recent again.
C22_IdleEviction ==
  [][ /\ last'.op = "idle_check"
         => \A s \in Live :
              LET t == sockets[s].sessionID
              IN IF sockets[s].lastActive = "old"
                 THEN /\ s \notin DOMAIN sockets'
                      /\ (t \in Sessions /\ sessionMap[t].socketId = s)
                         => /\ ~InQueue(waitingQueue', t)
                            /\ IF sessionMap[t].roomID = NoRoom
                               THEN t \notin DOMAIN sessionMap'
                               ELSE /\ t \in DOMAIN sessionMap'
                                    /\ sessionMap'[t].timer
                                    /\ GraceRuns(timers', t)
                                    /\ sessionMap'[t].roomID = sessionMap[t].roomID
                                    /\ \A o \in DOMAIN sockets' :
                                         sessionMap[t].roomID \in sockets[o].rooms
                                         => Received(out', o, "partner_reconnecting_server")
                 ELSE /\ s \in DOMAIN sockets'
                      /\ sockets'[s] = sockets[s]
      /\ (last'.op \in Inbound /\ last'.sock \in DOMAIN sockets')
         => sockets'[last'.sock].lastActive = "fresh"
    ]_vars

\* A sweep has disconnected the inactive connection of a paired session: its
\* grace timer runs, and its partner, whose connection was active, is still
\* connected and was told partner_reconnecting_server.
C22_Witness ==
  /\ last.op = "idle_check"
  /\ \E t \in Sessions :
       /\ ~CurrentLive(t)
       /\ sessionMap[t].timer
       /\ GraceRuns(timers, t)
       /\ CurrentLive(sessionMap[t].partnerSessionID)
       /\ Received(out, sessionMap[sessionMap[t].partnerSessionID].socketId,
                   "partner_reconnecting_server")

\* Session t has a phase-1 timer pending in tm: PHASE_1_DELAY has not passed
\* since its most recent find_partner (timers of one delay run in the order in
\* which they were set, so the most recent one is the last to run).
InPhase1Delay(tm, t) ==
  \E i \in 1..Len(tm) : tm[i].kind = "phase1" /\ tm[i].sessionID = t

\* C23: a pairing is never committed by the scan of a session for which the
\* phase-1 delay after its most recent find_partner has not passed yet, also
\* when timers of an earlier find_partner of that session are still pending.
C23_NoCommitBeforePhase1Delay ==
  [][ \A a, b \in Sessions :
        (Pairs(a, b) /\ last'.token = a) => ~InPhase1Delay(timers', a) ]_vars

\* The phase-2 timer that expires first, or 0
NextPhase2 ==
  IF \E i \in 1..Len(timers) : timers[i].kind = "phase2"
  THEN CHOOSE i \in 1..Len(timers) :
         /\ timers[i].kind = "phase2"
         /\ \A j \in 1..(i - 1) : timers[j].kind # "phase2"
  ELSE 0

\* The timer that runs in a step of the matcher
Running == IF last'.op = "phase1" THEN NextPhase1 ELSE NextPhase2

\* The timer at place i belongs to a search that its session has replaced by
\* a later one: a phase timer of a later search of the session is pending too.
SupersededTimer(i) ==
  \E j \in (i + 1)..Len(timers) :
    /\ timers[j].sessionID = timers[i].sessionID
    /\ timers[j].kind \in {"phase1", "phase2"}

\* C24: the timers of a superseded search do nothing.  When a phase-1 or
\* phase-2 timer runs that was set by a search its session has replaced by a
\* later find_partner, it commits no pairing, changes no pool entry (so it
\* does not change the new entry's phase) and emits nothing.
C24_SupersededTimersAreDead ==
  [][ ( /\ last'.op \in {"phase1", "phase2"}
        /\ SupersededTimer(Running) )
      => /\ waitingQueue' = waitingQueue
         /\ sessionMap' = sessionMap
         /\ out' = <<>>
    ]_vars

\* C25: a phase timer of a session that has no pool entry any more (it was
\* matched as another session's candidate, it left, or it disconnected, and it
\* has not searched again) does nothing when it runs: no connection, session
\* or pool entry changes, nothing is emitted and no further timer is set.
C25_TimerWithoutEntry ==
  [][ ( /\ last'.op \in {"phase1", "phase2"}
        /\ ~InQueue(waitingQueue, timers[Running].sessionID) )
      => /\ UNCHANGED <<sockets, sessionMap, waitingQueue>>
         /\ out' = <<>>
         /\ Len(timers') = Len(timers) - 1
         /\ \A i \in 1..Len(timers') :
              \E j \in 1..Len(timers) :
                /\ timers'[i].kind = timers[j].kind
                /\ timers'[i].sessionID = timers[j].sessionID
    ]_vars

\* The phase timer of a session that had been taken as the candidate of
\* another session's scan has run: the two are still paired, both connected,
\* and nothing was emitted.
C25_Witness ==
  /\ last.op \in {"phase1", "phase2"}
  /\ out = <<>>
  /\ ~InQueue(waitingQueue, last.token)
  /\ Linked(last.token)
  /\ CurrentLive(last.token)
  /\ CurrentLive(sessionMap[last.token].partnerSessionID)
  /\ timers = <<>>

\* C26: a session whose phase-1 scan finds no exact match has its entry marked
\* openToAny at phase-1 expiry, so that the entry is openToAny during the
\* phase-2 delay that follows.
C26_OpenToAnyAtPhase1Expiry ==
  [][ \A a \in Tokens :
        ( /\ last'.op = "phase1"
          /\ timers[NextPhase1].sessionID = a
          /\ ~SupersededTimer(NextPhase1)
          /\ InQueue(waitingQueue, a)
          /\ ~EntryOf(waitingQueue, a).isMatched
          /\ InQueue(waitingQueue', a)
          /\ ~EntryOf(waitingQueue', a).isMatched )
        => EntryOf(waitingQueue', a).openToAny
    ]_vars

\* C27: a pairing committed by a phase-1 scan joins two entries whose topics,
\* as their entries hold them when the scan runs, are equal and neither ''
\* nor 'Others'; so a session whose entry has a generic topic commits no
\* pairing at its phase-1 expiry.
C27_Phase1PairsEqualTopics ==
  [][ \A a, b \in Sessions :
        ( Pairs(a, b) /\ last'.op = "phase1" /\ last'.token = a )
        => /\ EntryOf(waitingQueue, a).userData.field
                = EntryOf(waitingQueue, b).userData.field
           /\ ~IsGeneric(EntryOf(waitingQueue, a).userData.field)
    ]_vars

\* Entry j of the pool is one that the scan of session a accepts at phase 2.
Acceptable(a, j) ==
  /\ waitingQueue[j].sessionID # a
  /\ ~waitingQueue[j].isMatched
  /\ \/ waitingQueue[j].openToAny
     \/ waitingQueue[j].userData.field = EntryOf(waitingQueue, a).userData.field

\* C28: at the phase-2 expiry of session a, whose entry is in the pool and
\* unlocked, an unlocked entry of another session is accepted as partner if and
\* only if it is openToAny or its topic is the topic of a's entry: a pairing is
\* made when there is such an entry and then with such an entry, and none is
\* made when there is none, so an entry that is not openToAny and has another
\* topic is never selected.
C28_Phase2Acceptance ==
  [][ \A a \in Tokens :
        ( /\ last'.op = "phase2"
          /\ timers[NextPhase2].sessionID = a
          /\ InQueue(waitingQueue, a)
          /\ ~EntryOf(waitingQueue, a).isMatched )
        => /\ (\E j \in 1..Len(waitingQueue) : Acceptable(a, j))
              <=> (Aborts \/ \E b \in Sessions : Pairs(a, b))
           /\ \A b \in Sessions :
                Pairs(a, b) => Acceptable(a, FindEntry(waitingQueue, b))
    ]_vars

\* Entry j of the pool is compatible with the scan of the timer that runs:
\* another session's, unlocked, and of the scan's topic (phase 1, non-generic)
\* or openToAny or of the scan's topic (phase 2).
Compatible(j) ==
  /\ waitingQueue[j].sessionID # timers[Running].sessionID
  /\ ~waitingQueue[j].isMatched
  /\ IF last'.op = "phase1"
     THEN /\ waitingQueue[j].userData.field = timers[Running].field
          /\ ~IsGeneric(timers[Running].field)
     ELSE \/ waitingQueue[j].openToAny
          \/ waitingQueue[j].userData.field = timers[Running].field

\* The sessions of the pool q, in the order of their entries, without session t
OrderOf(q, t) ==
  LET ids == [i \in 1..Len(q) |-> q[i].sessionID]
  IN SelectSeq(ids, LAMBDA x : x # t)

\* C29: a phase-1 and a phase-2 scan take the earliest-inserted entry among the
\* compatible, unlocked entries of the other sessions; and the pool keeps the
\* order of insertion: a find_partner puts the session's entry at the end and
\* leaves the others in their order, and every other step at most removes
\* entries.
C29_FirstCompatibleWins ==
  [][ /\ \A a, b \in Sessions :
           ( /\ last'.op \in {"phase1", "phase2"}
             /\ last'.token = a
             /\ Pairs(a, b) )
           => /\ Compatible(FindEntry(waitingQueue, b))
              /\ \A j \in 1..(FindEntry(waitingQueue, b) - 1) : ~Compatible(j)
      /\ IF last'.op = "find_partner"
         THEN /\ waitingQueue' # <<>>
              /\ waitingQueue'[Len(waitingQueue')].sessionID = last'.token
              /\ OrderOf(waitingQueue', last'.token) = OrderOf(waitingQueue, last'.token)
         ELSE \E gone \in SUBSET Tokens :
                /\ \A i \in 1..Len(waitingQueue') : waitingQueue'[i].sessionID \notin gone
                /\ [i \in 1..Len(waitingQueue') |-> waitingQueue'[i].sessionID]
                     = SelectSeq([i \in 1..Len(waitingQueue) |-> waitingQueue[i].sessionID],
                                 LAMBDA x : x \notin gone)
    ]_vars

\* A scan has paired its session with one of two compatible candidates: the
\* entry of the other one, of the same topic and unlocked, is still in the pool.
C29_Witness ==
  /\ last.op \in {"phase1", "phase2"}
  /\ Linked(last.token)
  /\ Received(out, sessionMap[last.token].socketId, "matched")
  /\ Len(waitingQueue) = 1
  /\ ~waitingQueue[1].isMatched
  /\ ~IsNull(sessionMap[last.token].userData)
  /\ waitingQueue[1].userData.field = Val(sessionMap[last.token].userData).field
  /\ ~IsNull(sessionMap[sessionMap[last.token].partnerSessionID].userData)
  /\ waitingQueue[1].userData.field
       = Val(sessionMap[sessionMap[last.token].partnerSessionID].userData).field

\* Session a has waited through both phases without finding a partner: it has
\* no phase timer pending, its entry is in the pool q, openToAny and unlocked,
\* and its current connection is live.
Settled(q, sess, socks, tm, a) ==
  /\ a \in DOMAIN sess
  /\ sess[a].socketId \in DOMAIN socks
  /\ \E i \in 1..Len(q) :
       q[i].sessionID = a /\ q[i].openToAny /\ ~q[i].isMatched
  /\ \A i \in 1..Len(tm) :
       tm[i].sessionID = a => tm[i].kind \notin {"phase1", "phase2"}

\* C30: a session whose phase-2 scan found no partner stays in the pool,
\* openToAny and unlocked, through every step that is not a request or the
\* disconnect of one of its own connections, until a scan pairs it.  When the phase-1 timer of another
\* connected session with the same non-generic topic runs, or its phase-2 timer
\* with whatever topic, and no earlier-inserted entry is compatible, that step
\* pairs the two.
C30_OpenWaiterStaysEligible ==
  [][ \A a \in Tokens :
        Settled(waitingQueue, sessionMap, sockets, timers, a)
        => /\ ~(last'.token = a /\ last'.op \in Inbound \cup {"disconnect"})
              => \/ Settled(waitingQueue', sessionMap', sockets', timers', a)
                 \/ \E b \in Sessions : Pairs(a, b)
           /\ \A c \in Tokens \ {a} :
                ( /\ last'.op \in {"phase1", "phase2"}
                  /\ timers[Running].sessionID = c
                  /\ CurrentLive(c)
                  /\ InQueue(waitingQueue, c)
                  /\ ~EntryOf(waitingQueue, c).isMatched
                  /\ last'.op = "phase1"
                     => /\ EntryOf(waitingQueue, a).userData.field = timers[Running].field
                        /\ ~IsGeneric(timers[Running].field)
                  /\ \A j \in 1..(FindEntry(waitingQueue, a) - 1) : ~Compatible(j) )
                => Pairs(c, a)
    ]_vars

\* The phase-2 scan of a session has paired it with a session of another
\* topic, which had been waiting in the pool since before that session's
\* search began.
C30_Witness ==
  /\ last.op = "phase2"
  /\ Linked(last.token)
  /\ Received(out, sessionMap[last.token].socketId, "matched")
  /\ \E i, j \in DOMAIN out :
       /\ out[i].ev = "matched" /\ out[j].ev = "matched"
       /\ out[i].field # out[j].field
  /\ timers = <<>>
  /\ waitingQueue = <<>>
  /\ used.searches = 2

\* The matched events of o addressed to connection s
MatchedTo(o, s) == {i \in DOMAIN o : o[i].to = s /\ o[i].ev = "matched"}

\* What the pairing of a with b does to a's side: the session's messageQueue is
\* empty, its entry has left the pool, and its current connection gets exactly
\* one matched event, with the name and topic b submitted and the room id.
PairedSide(a, b) ==
  /\ sessionMap'[a].messageQueue = <<>>
  /\ ~InQueue(waitingQueue', a)
  /\ Cardinality(MatchedTo(out', sessionMap[a].socketId)) = 1
  /\ \A i \in MatchedTo(out', sessionMap[a].socketId) :
       /\ out'[i].name = NameOf(Some(EntryOf(waitingQueue, b).userData))
       /\ out'[i].field = EntryOf(waitingQueue, b).userData.field
       /\ out'[i].roomID = sessionMap'[a].roomID

\* C31: a successful pairing of A and B sets, in one step, one roomID on both
\* sessions and each one's partnerSessionID to the other, empties both
\* messageQueues, removes both pool entries, and sends each side exactly one
\* matched event that carries the other's name ('Stranger' if it gave none),
\* the other's topic and the room id; nothing else is emitted.
C31_PairingEffects ==
  [][ \A a, b \in Sessions :
        Pairs(a, b)
        => /\ PairedSide(a, b)
           /\ PairedSide(b, a)
           /\ Len(out') = 2
    ]_vars

\* ------------------------------------------------------------------ message origin
MailTokens == 2
MailSockets == 3
MailSearches == 3
MailMessages == 1

InitMail ==
  /\ InitState
  /\ limit = [tokens |-> MailTokens, sockets |-> MailSockets,
              searches |-> MailSearches, messages |-> MailMessages]

SpecMail == InitMail /\ [][Next]_vars

\* The receive_message events of a step.
Delivered(o) == {i \in DOMAIN o : o[i].ev = "receive_message"}

\* The sessions that sent the message of event i of this step: the caller of
\* send_message for an instant send, the recorded sender for a flushed message.
SenderOf(i) ==
  IF last'.op = "send_message"
  THEN {last'.token}
  ELSE {t \in Tokens : <<out'[i].text, t>> \in sentBy}

\* Session t is the partner that session S records at the end of the step.
PartnerOf(S, t) ==
  /\ S \in Sessions'
  /\ sessionMap'[S].roomID # NoRoom
  /\ sessionMap'[S].partnerSessionID = t

\* C32: message origin.  Every receive_message event delivered to a connection
\* of session S, at once or flushed from the messageQueue on reconnection, was
\* sent by the session that S records as its partner at the moment of
\* delivery; a message of a former partner is never delivered to S.  (A
\* session's own message that reaches another connection of the same session
\* is left aside here: the property speaks of messages of other sessions.)
C32_DeliveredFromPartner ==
  [][ \A i \in Delivered(out') :
        \A t \in SenderOf(i) :
          t # sockets'[out'[i].to].sessionID
            => PartnerOf(sockets'[out'[i].to].sessionID, t) ]_vars

\* ------------------------------------------------------------------ restored sessions
\* The room of session t is alive: the partner's session exists and is still
\* paired with t in the same room.
RoomAlive(sess, t) ==
  /\ sess[t].roomID # NoRoom
  /\ sess[t].partnerSessionID \in DOMAIN sess
  /\ sess[sess[t].partnerSessionID].roomID = sess[t].roomID
  /\ sess[sess[t].partnerSessionID].partnerSessionID = t

\* C33: restored only into a live room.  A reconnection is answered with
\* session_restored {status: 'connected'} only if the partner's session still
\* exists and is still paired with the reconnecting session; after the partner
\* left or the partner's grace period expired, the reconnecting session is not
\* told that it is connected.
C33_RestoredOnlyIfRoomAlive ==
  [][ \A i \in DOMAIN out' :
        (last'.op = "reconnect" /\ out'[i].ev = "session_restored")
          => RoomAlive(sessionMap, last'.token) ]_vars

\* ------------------------------------------------------------------ pool entries
\* C34: pool entries belong to live sessions.  In every reachable state the
\* token of each waitingQueue entry has a session whose current connection is
\* live, also when several connections present the same token; no entry
\* survives for a token whose session was deleted.
C34_PoolEntriesLive ==
  \A i \in DOMAIN waitingQueue : CurrentLive(waitingQueue[i].sessionID)

\* C35: no stale lock.  After every handler and every timer callback, no entry
\* that remains in the waitingQueue has isMatched set.
C35_NoLockedEntry ==
  \A i \in DOMAIN waitingQueue : ~waitingQueue[i].isMatched

\* ------------------------------------------------------------------ matching progress
\* Session t waits in the pool with a live current connection.
WaitsLive(t) == CurrentLive(t) /\ InQueue(waitingQueue, t)

\* A phase-1 or phase-2 timer of session t is pending.
PhasePending(t) ==
  \E i \in DOMAIN timers : timers[i].sessionID = t /\ timers[i].kind \in {"phase1", "phase2"}

\* C36 (safety part): no reachable state has two connected sessions that both
\* sit in the pool while no phase timer is pending for either of them.
C36_NoStrandedPair ==
  \A a, b \in Sessions :
    (a # b /\ WaitsLive(a) /\ WaitsLive(b)) => (PhasePending(a) \/ PhasePending(b))

FairTokens == 2
FairSockets == 4
FairSearches == 2

InitFair ==
  /\ InitState
  /\ limit = [tokens |-> FairTokens, sockets |-> FairSockets,
              searches |-> FairSearches, messages |-> 0]

\* Some pending phase timer runs its callback.
PhaseTimerFires == \E i \in DOMAIN timers : Phase1(i) \/ Phase2(i)

\* The connection, search and phase-timer events of the server.  setTimeout
\* callbacks are always run in the end: a phase timer that stays pending fires.
NextFair ==
  \/ \E tok \in Tokens : ConnectNew(tok)
  \/ \E tok \in Tokens : Reconnect(tok)
  \/ \E s \in Live : Disconnect(s)
  \/ \E s \in Live : \E userData \in ProfilesOf(sockets[s].sessionID) :
        FindPartner(s, userData)
  \/ PhaseTimerFires

SpecFair == InitFair /\ [][NextFair]_vars /\ WF_vars(PhaseTimerFires)

BothWait(a, b) == WaitsLive(a) /\ WaitsLive(b)

\* C36 (progress part): if two sessions are in the pool at the same time and
\* both stay connected without further requests, then, the timers firing
\* fairly, the two do not both stay in the pool for ever: at least one of
\* them is matched.
C36_MatchingProgress ==
  \A i \in 1..FairTokens : \A j \in (i + 1)..FairTokens :
    BothWait(TokenOrder[i], TokenOrder[j]) ~> ~BothWait(TokenOrder[i], TokenOrder[j])

\* ------------------------------------------------------------------ grace timers
\* The pending grace timers of session t.
GracePending(tm, t) == {i \in DOMAIN tm : tm[i].kind = "grace" /\ tm[i].sessionID = t}

\* C37: grace timers.  In every reachable state a session has at most one
\* pending grace timer, and a grace timer is pending only while the session
\* has a room and no live current connection; so the expiry of the grace
\* period never deletes a session that is connected or searching.
C37_GraceTimerOnlyWhileAway ==
  \A t \in Tokens :
    /\ Cardinality(GracePending(timers, t)) <= 1
    /\ GracePending(timers, t) # {}
         => /\ t \in Sessions
            /\ sessionMap[t].roomID # NoRoom
            /\ ~CurrentLive(t)
            /\ ~InQueue(waitingQueue, t)

====
